---- MODULE Spec2Model ----
(***************************************************************************)
(* Model of the c-circus circular buffer (circularbuffer.c/.h) and of the  *)
(* way the UART driver (circularuart.c) calls it.                          *)
(*                                                                         *)
(* bufferObject is the CircularBufferObject_t; the operations of           *)
(* circularbuffer.c are operators computing the object after the call and  *)
(* the returned value, and one action per operation applies them.          *)
(***************************************************************************)
EXTENDS Integers, Sequences, FiniteSets, TLC

\* ------------------------------------------------------------------ bounds
\* Largest capacity exponent length_2N explored (the code allows 0..16).
MaxExp == 2
\* Payload bytes are 0..MaxByte; the k-th byte accepted by the buffer is
\* k % (MaxByte + 1), so that loss, duplication and reordering all show.
MaxByte == 4
\* Largest maxlen passed to a bulk push or a bulk pop.
MaxLen == 5
\* Pushes are offered while fewer than MaxXfer bytes were accepted in total.
MaxXfer == 10

\* The number of bytes the driver gets accepted by one buffer.
MaxDrvXfer == 6

\* The iterations of a copy loop are counted up to this number.
MaxIters == 3

\* The largest capacity exponent handed to CircularBuffer_init on its own.
MaxInitExp == 18

\* CircularBuffer_init is called again on an object that accepted at most
\* this many bytes since it was initialised.
MaxReuse == 3

\* A byte read through NULL is one of 0..MaxStray.
MaxStray == 1

\* ------------------------------------------------------- machine arithmetic
\* 2^n.
RECURSIVE Pow2(_)
Pow2(n) == IF n = 0 THEN 1 ELSE 2 * Pow2(n - 1)

\* Conversion of an integer to uint16_t (two's complement truncation).
U16(x) == x % 65536

Min(a, b) == IF a < b THEN a ELSE b

\* Bitwise AND of two naturals.
RECURSIVE BitAndNat(_, _)
BitAndNat(a, b) ==
    IF a = 0 \/ b = 0 THEN 0
    ELSE (a % 2) * (b % 2) + 2 * BitAndNat(a \div 2, b \div 2)

\* C's x & mask for an int x (possibly negative, two's complement) and a
\* uint16_t mask: the bits of x above the 16th meet zero bits of the mask.
BitAnd(x, mask) == BitAndNat(U16(x), mask)

\* ------------------------------------------------------------------- memory
\* A caller-supplied store of 2^length_2N bytes, zero-initialised, or NULL.
\* oob records that an access fell outside the store (undefined behaviour).
NewMemory(length_2N) ==
    [null |-> FALSE, oob |-> FALSE, cells |-> [i \in 0 .. (Pow2(length_2N) - 1) |-> 0]]

NULL == [null |-> TRUE, oob |-> FALSE, cells |-> [i \in {} |-> 0]]

\* The n bytes at, at+1, ..., at+n-1 all lie inside the store.
Inside(memory, at, n) ==
    n = 0 \/ (at \in DOMAIN memory.cells /\ (at + n - 1) \in DOMAIN memory.cells)

\* memcpy(&memory[at], src, n): src is a sequence, its first n bytes go to
\* the cells at, at+1, ..., at+n-1.
MemcpyIn(memory, at, src, n) ==
    [memory EXCEPT
        !.oob = @ \/ ~Inside(memory, at, n),
        !.cells = [i \in DOMAIN memory.cells |->
                     IF i >= at /\ i < at + n THEN src[i - at + 1] ELSE memory.cells[i]]]

\* memcpy(dst, &memory[at], n): the n bytes read, as a sequence (a byte read
\* outside the store reads as 0 here, the access being recorded by MemRead).
MemcpyOut(memory, at, n) ==
    [i \in 1 .. n |->
        IF (at + i - 1) \in DOMAIN memory.cells THEN memory.cells[at + i - 1] ELSE 0]

\* The store after the n bytes at `at` were read.
MemRead(memory, at, n) == [memory EXCEPT !.oob = @ \/ ~Inside(memory, at, n)]

\* ------------------------------------------------------------ circularbuffer.c
\* Mutant: lengthMask is as wide as the shifted value.
CircularBuffer_init_Wide(bufferMemory, length_2N) ==
    LET mask == Pow2(length_2N) - 1
    IN  [ memory     |-> bufferMemory,
          lengthMask |-> mask,
          length     |-> IF length_2N # 0 THEN mask + 1 ELSE 0,
          faultFlag  |-> FALSE,
          front      |-> 0,
          back       |-> 0 ]

\* lengthMask = (0x0001UL << length_2N) - 1 stored to a uint16_t field.
CircularBuffer_init(bufferMemory, length_2N) ==
    LET mask == U16(Pow2(length_2N) - 1)
    IN  [ memory     |-> bufferMemory,
          lengthMask |-> mask,
          length     |-> IF length_2N # 0 THEN mask + 1 ELSE 0,
          faultFlag  |-> FALSE,
          front      |-> 0,
          back       |-> 0 ]

\* The 32-bit snapshot of (back, front) and their masked difference.
CircularBuffer_getUnreadSize(obj) ==
    LET cachedPointers == [back |-> obj.back, front |-> obj.front]
    IN  U16(BitAnd(cachedPointers.back - cachedPointers.front, obj.lengthMask))

\* Mutant: the fault is reported but the flag is not cleared.
CircularBuffer_checkAndClearFault_KeepsFlag(obj, clearBuffer) ==
    LET cleared == IF clearBuffer THEN [obj EXCEPT !.front = obj.back] ELSE obj
    IN  [obj |-> cleared, ret |-> cleared.faultFlag]

\* Mutant: the reset moves the write cursor to the read cursor.
CircularBuffer_checkAndClearFault_MovesBack(obj, clearBuffer) ==
    LET cleared == IF clearBuffer THEN [obj EXCEPT !.back = obj.front] ELSE obj
    IN  IF cleared.faultFlag
        THEN [obj |-> [cleared EXCEPT !.faultFlag = FALSE], ret |-> TRUE]
        ELSE [obj |-> cleared, ret |-> FALSE]

\* Returns [obj, ret].
CircularBuffer_checkAndClearFault(obj, clearBuffer) ==
    LET cleared == IF clearBuffer THEN [obj EXCEPT !.front = obj.back] ELSE obj
    IN  IF cleared.faultFlag
        THEN [obj |-> [cleared EXCEPT !.faultFlag = FALSE], ret |-> TRUE]
        ELSE [obj |-> cleared, ret |-> FALSE]

\* Mutant: the space test is unread <= lengthMask, the last slot is used too.
CircularBuffer_pushBackByte_OffByOne(obj, data) ==
    LET unread == CircularBuffer_getUnreadSize(obj)
    IN  IF unread <= obj.lengthMask
        THEN [obj |-> [obj EXCEPT
                        !.memory = MemcpyIn(obj.memory, obj.back, <<data>>, 1),
                        !.back = U16(BitAnd(obj.back + 1, obj.lengthMask))],
              ret |-> TRUE]
        ELSE [obj |-> [obj EXCEPT !.faultFlag = TRUE], ret |-> FALSE]

\* Mutant: a rejected push does not set the fault flag.
CircularBuffer_pushBackByte_NoFault(obj, data) ==
    LET unread == CircularBuffer_getUnreadSize(obj)
    IN  IF unread < obj.lengthMask
        THEN [obj |-> [obj EXCEPT
                        !.memory = MemcpyIn(obj.memory, obj.back, <<data>>, 1),
                        !.back = U16(BitAnd(obj.back + 1, obj.lengthMask))],
              ret |-> TRUE]
        ELSE [obj |-> obj, ret |-> FALSE]

\* Mutant: a pending fault keeps the buffer closed until it is cleared.
CircularBuffer_pushBackByte_Latched(obj, data) ==
    LET unread == CircularBuffer_getUnreadSize(obj)
    IN  IF unread < obj.lengthMask /\ ~obj.faultFlag
        THEN [obj |-> [obj EXCEPT
                        !.memory = MemcpyIn(obj.memory, obj.back, <<data>>, 1),
                        !.back = U16(BitAnd(obj.back + 1, obj.lengthMask))],
              ret |-> TRUE]
        ELSE [obj |-> [obj EXCEPT !.faultFlag = TRUE], ret |-> FALSE]

\* Returns [obj, ret].
CircularBuffer_pushBackByte(obj, data) ==
    LET unread == CircularBuffer_getUnreadSize(obj)
    IN  IF unread < obj.lengthMask
        THEN [obj |-> [obj EXCEPT
                        !.memory = MemcpyIn(obj.memory, obj.back, <<data>>, 1),
                        !.back = U16(BitAnd(obj.back + 1, obj.lengthMask))],
              ret |-> TRUE]
        ELSE [obj |-> [obj EXCEPT !.faultFlag = TRUE], ret |-> FALSE]

\* Mutant: the byte is read after the cursor was advanced.
CircularBuffer_popFrontByte_ReadsLate(obj) ==
    IF obj.back # obj.front
    THEN LET next == U16(BitAnd(obj.front + 1, obj.lengthMask))
         IN  [obj |-> [obj EXCEPT
                         !.memory = MemRead(obj.memory, next, 1),
                         !.front = next],
              ret |-> TRUE,
              out |-> MemcpyOut(obj.memory, next, 1)]
    ELSE [obj |-> obj, ret |-> FALSE, out |-> <<>>]

\* Mutant: no test for the empty buffer.
CircularBuffer_popFrontByte_NoCheck(obj) ==
    [obj |-> [obj EXCEPT
                !.memory = MemRead(obj.memory, obj.front, 1),
                !.front = U16(BitAnd(obj.front + 1, obj.lengthMask))],
     ret |-> TRUE,
     out |-> MemcpyOut(obj.memory, obj.front, 1)]

\* Returns [obj, ret, out]: out is what was stored through the data pointer.
CircularBuffer_popFrontByte(obj) ==
    IF obj.back # obj.front
    THEN [obj |-> [obj EXCEPT
                    !.memory = MemRead(obj.memory, obj.front, 1),
                    !.front = U16(BitAnd(obj.front + 1, obj.lengthMask))],
          ret |-> TRUE,
          out |-> MemcpyOut(obj.memory, obj.front, 1)]
    ELSE [obj |-> obj, ret |-> FALSE, out |-> <<>>]

\* The copy loop of CircularBuffer_pushBack: st = [obj, data, lenTotal, iters],
\* data being the source bytes not yet copied.
RECURSIVE PushBackLoop(_)
PushBackLoop(st) ==
    IF st.lenTotal > 0
    THEN LET obj == st.obj
             partialLen == IF (obj.length - obj.back) < st.lenTotal
                           THEN U16(obj.length - obj.back)
                           ELSE st.lenTotal
         IN  PushBackLoop(
               [ obj      |-> [obj EXCEPT
                                !.memory = MemcpyIn(obj.memory, obj.back, st.data, partialLen),
                                !.back = U16(BitAnd(obj.back + partialLen, obj.lengthMask))],
                 data     |-> SubSeq(st.data, partialLen + 1, Len(st.data)),
                 lenTotal |-> U16(st.lenTotal - partialLen),
                 iters    |-> st.iters + 1 ])
    ELSE st

\* Mutant: a truncated bulk push sets the fault flag, as a single push does.
CircularBuffer_pushBack_Faults(obj, data, maxlen) ==
    LET free == U16(obj.lengthMask - CircularBuffer_getUnreadSize(obj))
        lenTotal == IF free > maxlen THEN maxlen ELSE free
        end == PushBackLoop([obj |-> obj, data |-> data, lenTotal |-> lenTotal, iters |-> 0])
    IN  [obj |-> [end.obj EXCEPT !.faultFlag = @ \/ (free < maxlen)],
         len |-> lenTotal, iters |-> end.iters]

\* Mutant: the free size is taken from length, not from lengthMask.
CircularBuffer_pushBack_FullLength(obj, data, maxlen) ==
    LET free == U16(obj.length - CircularBuffer_getUnreadSize(obj))
        lenTotal == IF free > maxlen THEN maxlen ELSE free
        end == PushBackLoop([obj |-> obj, data |-> data, lenTotal |-> lenTotal, iters |-> 0])
    IN  [obj |-> end.obj, len |-> lenTotal, iters |-> end.iters]

\* Returns [obj, len, iters]: len is the returned count, iters the number of
\* iterations of the copy loop.
CircularBuffer_pushBack(obj, data, maxlen) ==
    LET free == U16(obj.lengthMask - CircularBuffer_getUnreadSize(obj))
        lenTotal == IF free > maxlen THEN maxlen ELSE free
        actualLen == lenTotal
        end == PushBackLoop([obj |-> obj, data |-> data, lenTotal |-> lenTotal, iters |-> 0])
    IN  [obj |-> end.obj, len |-> actualLen, iters |-> end.iters]

\* The copy loop of CircularBuffer_popFront: st = [obj, out, lenTotal, iters],
\* out being the bytes stored to the destination so far.
RECURSIVE PopFrontLoop(_)
PopFrontLoop(st) ==
    IF st.lenTotal > 0
    THEN LET obj == st.obj
             partialLen == IF (obj.length - obj.front) < st.lenTotal
                           THEN U16(obj.length - obj.front)
                           ELSE st.lenTotal
         IN  PopFrontLoop(
               [ obj      |-> [obj EXCEPT
                                !.memory = MemRead(obj.memory, obj.front, partialLen),
                                !.front = U16(BitAnd(obj.front + partialLen, obj.lengthMask))],
                 out      |-> st.out \o MemcpyOut(obj.memory, obj.front, partialLen),
                 lenTotal |-> U16(st.lenTotal - partialLen),
                 iters    |-> st.iters + 1 ])
    ELSE st

\* Mutant: one memcpy of the whole length, not split at the end of the store.
CircularBuffer_popFront_NoSplit(obj, maxlen) ==
    LET avail == CircularBuffer_getUnreadSize(obj)
        lenTotal == IF avail > maxlen THEN maxlen ELSE avail
    IN  [obj |-> [obj EXCEPT
                    !.memory = MemRead(obj.memory, obj.front, lenTotal),
                    !.front = U16(BitAnd(obj.front + lenTotal, obj.lengthMask))],
         len |-> lenTotal,
         out |-> MemcpyOut(obj.memory, obj.front, lenTotal),
         iters |-> IF lenTotal > 0 THEN 1 ELSE 0]

\* Mutant: the count is not limited by maxlen.
CircularBuffer_popFront_Unlimited(obj, maxlen) ==
    LET avail == CircularBuffer_getUnreadSize(obj)
        end == PopFrontLoop([obj |-> obj, out |-> <<>>, lenTotal |-> avail, iters |-> 0])
    IN  [obj |-> end.obj, len |-> avail, out |-> end.out, iters |-> end.iters]

\* Returns [obj, len, out, iters].
CircularBuffer_popFront(obj, maxlen) ==
    LET avail == CircularBuffer_getUnreadSize(obj)
        lenTotal == IF avail > maxlen THEN maxlen ELSE avail
        actualLen == lenTotal
        end == PopFrontLoop([obj |-> obj, out |-> <<>>, lenTotal |-> lenTotal, iters |-> 0])
    IN  [obj |-> end.obj, len |-> actualLen, out |-> end.out, iters |-> end.iters]

\* assert(bufferObject && bufferObject->memory): what every operation but init
\* checks first. The check exists in builds without NDEBUG only.
AssertMemory(obj) == ~obj.memory.null

\* -------------------------------------------------------------------- state
VARIABLES
    bufferObject,   \* the CircularBufferObject_t
    ndebug,         \* build configuration: TRUE when assert() is compiled out
    aborted,        \* an assertion failed: the program was aborted
    call,           \* the last call made: function, arguments, results
    sent,           \* the bytes accepted since the buffer was last empty or reset
    got,            \* the bytes the pops handed out since then
    accepted,       \* number of bytes accepted by pushes since the object was initialised
    delivered,      \* number of bytes handed out by pops since then
    discarded,      \* number of bytes dropped by a reset since then
    streak,         \* the checkAndClearFault calls made in a row, no other call between
    usage,          \* "rx": the interrupt context produces, "tx": it consumes, "api": one context
    task,           \* the call the normal context is in the middle of
    txe,            \* the USART's TXE interrupt is enabled
    obs,            \* what was observed of the calls so far (see NoObs)
    uart            \* USART1: its transmitter and its RXNE interrupt enable bit (see UartReset)

vars == <<bufferObject, ndebug, aborted, call, sent, got, accepted, delivered,
          discarded, streak, usage, task, txe, obs, uart>>

\* The accepted bytes not yet delivered nor discarded, oldest first.
fifo == SubSeq(sent, Len(got) + 1, Len(sent))

\* sent' and got' of a push that had `more` accepted.
Sent(more) ==
    /\ sent' = IF fifo = <<>> THEN more ELSE sent \o more
    /\ got' = IF fifo = <<>> THEN <<>> ELSE got

Bytes == 0 .. MaxByte

\* The n bytes the producer offers next: it numbers the bytes it got accepted
\* and offers again what was rejected.
Offer(n) == [i \in 1 .. n |-> (accepted + i - 1) % (MaxByte + 1)]

NoCall ==
    [fn |-> "init", clearBuffer |-> FALSE, data |-> <<>>, maxlen |-> 0,
     ret |-> FALSE, len |-> 0, out |-> <<>>, iters |-> 0, assertFailed |-> FALSE]

\* No checkAndClearFault call was the last call.
NoStreak == [calls |-> 0, trues |-> 0]

\* The normal context is between two calls.
\* The fields are the locals of the call in progress: unread, back, front and
\* flag hold what was loaded from the object, lenTotal, partialLen, data and
\* out are the locals of the bulk copies, drop is the number of unread bytes
\* a reset in progress is discarding, done maps the offsets the memcpy in
\* progress has copied to the bytes it copied, stored is the set of the
\* fields of the object that the call in progress has accessed: stored by
\* CircularBuffer_init, loaded ("back", "faultFlag") or stored ("front",
\* and "cleared" for the store to faultFlag) by
\* CircularBuffer_checkAndClearFault.
Idle ==
    [fn |-> "none", pc |-> "idle", unread |-> 0, back |-> 0, front |-> 0,
     flag |-> FALSE, clearBuffer |-> FALSE, lenTotal |-> 0,
     actualLen |-> 0, partialLen |-> 0, iters |-> 0, data |-> <<>>, out |-> <<>>,
     drop |-> 0, done |-> <<>>, stored |-> {}]

\* USART1 after reset: the data register is empty (the TXE flag is set),
\* nothing is being shifted out, the TC flag is set, and the RXNE interrupt
\* is disabled (rxneie).
UartReset == [full |-> FALSE, shifting |-> FALSE, tc |-> TRUE, rxneie |-> FALSE]

\* Nothing observed yet. seen: the occupancies (back - front) & lengthMask that
\* held since the getUnreadSize call in progress started; last: the result of
\* the previous getUnreadSize call of the normal context and whether a
\* producer (prod) or a consumer (cons) action took effect since that call
\* started; during: whether one took effect since the getUnreadSize call in
\* progress started; age: 0 when every
\* rejected push was reported by a checkAndClearFault call, 1 when a push was
\* rejected during the checkAndClearFault call in progress, 2 when a push was
\* rejected before the call in progress (or the next call) started. A store
\* of CircularBuffer_init to faultFlag drops the reports that were due.
NoObs ==
    [seen |-> {}, last |-> [valid |-> FALSE, len |-> 0, prod |-> FALSE, cons |-> FALSE],
     during |-> [prod |-> FALSE, cons |-> FALSE], age |-> 0]


\* assert(length_2N <= 16) of CircularBuffer_init.
AssertExponent(length_2N) == length_2N <= 16

\* The buffers a program can construct: the unconfigured one of
\* CircularUART_Init (NULL, 0) and the ones of CircularUART_StartTx/StartRx.
Init ==
    /\ \E length_2N \in 0 .. MaxExp, isNull \in BOOLEAN :
          /\ isNull => length_2N = 0
          /\ bufferObject = CircularBuffer_init(
                               IF isNull THEN NULL ELSE NewMemory(length_2N), length_2N)
    /\ ndebug \in BOOLEAN
    /\ aborted = FALSE
    /\ call = NoCall
    /\ sent = <<>>
    /\ got = <<>>
    /\ accepted = 0
    /\ delivered = 0
    /\ discarded = 0
    /\ streak = NoStreak
    /\ usage = "api"
    /\ task = Idle
    /\ txe = FALSE
    /\ obs = NoObs
    /\ uart = UartReset

\* A call whose assertion fails aborts the program and changes nothing else.
Abort(fn) ==
    /\ aborted' = TRUE
    /\ call' = [NoCall EXCEPT !.fn = fn, !.assertFailed = TRUE]
    /\ streak' = NoStreak
    /\ UNCHANGED <<usage, task, txe, obs, uart, bufferObject, ndebug, sent, got, accepted,
                   delivered, discarded>>

\* The assertion of an operation passes, or is compiled out.
Passes == ndebug \/ AssertMemory(bufferObject)

GetUnreadSize ==
    /\ ~aborted
    /\ IF Passes
       THEN /\ call' = [NoCall EXCEPT !.fn = "getUnreadSize",
                                      !.len = CircularBuffer_getUnreadSize(bufferObject)]
            /\ streak' = NoStreak
            /\ UNCHANGED <<usage, task, txe, obs, uart, bufferObject, ndebug, aborted, sent, got,
                           accepted, delivered, discarded>>
       ELSE Abort("getUnreadSize")

CheckAndClearFault ==
    /\ ~aborted
    /\ \E clearBuffer \in BOOLEAN :
        IF Passes
        THEN LET r == CircularBuffer_checkAndClearFault(bufferObject, clearBuffer)
             IN  /\ bufferObject' = r.obj
                 /\ call' = [NoCall EXCEPT !.fn = "checkAndClearFault",
                                           !.clearBuffer = clearBuffer, !.ret = r.ret]
                 /\ sent' = IF clearBuffer THEN <<>> ELSE sent
                 /\ got' = IF clearBuffer THEN <<>> ELSE got
                 /\ discarded' = IF clearBuffer THEN discarded + Len(fifo) ELSE discarded
                 /\ streak' = [calls |-> IF streak.calls < 2 THEN streak.calls + 1 ELSE 2,
                                trues |-> IF r.ret /\ streak.trues < 2
                                          THEN streak.trues + 1 ELSE streak.trues]
                 /\ UNCHANGED <<usage, task, txe, obs, uart, ndebug, aborted, accepted, delivered>>
        ELSE Abort("checkAndClearFault")

PushBackByte ==
    /\ ~aborted
    /\ accepted < MaxXfer
    /\ IF Passes
       THEN LET data == Offer(1)
                r == CircularBuffer_pushBackByte(bufferObject, data[1])
            IN  /\ bufferObject' = r.obj
                /\ call' = [NoCall EXCEPT !.fn = "pushBackByte", !.data = data,
                                          !.maxlen = 1, !.ret = r.ret]
                /\ Sent(IF r.ret THEN data ELSE <<>>)
                /\ accepted' = IF r.ret THEN accepted + 1 ELSE accepted
                /\ streak' = NoStreak
                /\ UNCHANGED <<usage, task, txe, obs, uart, ndebug, aborted, delivered, discarded>>
       ELSE Abort("pushBackByte")

PopFrontByte ==
    /\ ~aborted
    /\ IF Passes
       THEN LET r == CircularBuffer_popFrontByte(bufferObject)
            IN  /\ bufferObject' = r.obj
                /\ call' = [NoCall EXCEPT !.fn = "popFrontByte", !.maxlen = 1,
                                          !.ret = r.ret, !.out = r.out]
                /\ got' = got \o r.out
                /\ delivered' = IF r.ret THEN delivered + 1 ELSE delivered
                /\ streak' = NoStreak
                /\ UNCHANGED <<usage, task, txe, obs, uart, ndebug, aborted, sent, accepted, discarded>>
       ELSE Abort("popFrontByte")

PushBack ==
    /\ ~aborted
    /\ accepted < MaxXfer
    /\ \E maxlen \in 0 .. MaxLen :
        IF Passes
        THEN LET data == Offer(maxlen)
                 r == CircularBuffer_pushBack(bufferObject, data, maxlen)
             IN  /\ bufferObject' = r.obj
                 /\ call' = [NoCall EXCEPT !.fn = "pushBack", !.data = data,
                                           !.maxlen = maxlen, !.len = r.len,
                                           !.iters = r.iters]
                 /\ Sent(SubSeq(data, 1, r.len))
                 /\ accepted' = accepted + r.len
                 /\ streak' = NoStreak
                 /\ UNCHANGED <<usage, task, txe, obs, uart, ndebug, aborted, delivered, discarded>>
        ELSE Abort("pushBack")

PopFront ==
    /\ ~aborted
    /\ \E maxlen \in 0 .. MaxLen :
        IF Passes
        THEN LET r == CircularBuffer_popFront(bufferObject, maxlen)
             IN  /\ bufferObject' = r.obj
                 /\ call' = [NoCall EXCEPT !.fn = "popFront", !.maxlen = maxlen,
                                           !.len = r.len, !.out = r.out,
                                           !.iters = r.iters]
                 /\ got' = got \o r.out
                 /\ delivered' = delivered + r.len
                 /\ streak' = NoStreak
                 /\ UNCHANGED <<usage, task, txe, obs, uart, ndebug, aborted, sent, accepted, discarded>>
        ELSE Abort("popFront")

\* CircularBuffer_init called on the object again (CircularUART_StartTx and
\* CircularUART_StartRx do it): with the store the object has, when it is
\* large enough, with a new store, or unconfigured (NULL, 0). The unread bytes
\* are dropped and the counts of bytes start again. call.maxlen records
\* length_2N. The call is made at any time; here, while at most MaxReuse bytes
\* were accepted.
Reinit ==
    /\ ~aborted
    /\ accepted <= MaxReuse
    /\ \E length_2N \in 0 .. MaxExp :
       \E bufferMemory \in {NULL, NewMemory(length_2N), bufferObject.memory} :
          /\ bufferMemory = NULL => length_2N = 0
          /\ bufferMemory # NULL => Inside(bufferMemory, 0, Pow2(length_2N))
          /\ IF ndebug \/ AssertExponent(length_2N)
             THEN /\ bufferObject' = CircularBuffer_init(bufferMemory, length_2N)
                  /\ call' = [NoCall EXCEPT !.fn = "init", !.maxlen = length_2N]
                  /\ sent' = <<>>
                  /\ got' = <<>>
                  /\ accepted' = 0
                  /\ delivered' = 0
                  /\ discarded' = 0
                  /\ streak' = NoStreak
                  /\ UNCHANGED <<usage, task, txe, obs, uart, ndebug, aborted>>
             ELSE Abort("init")

Next ==
    \/ Reinit
    \/ GetUnreadSize
    \/ CheckAndClearFault
    \/ PushBackByte
    \/ PopFrontByte
    \/ PushBack
    \/ PopFront

Spec == Init /\ [][Next]_vars

\* ------------------------------------------------- CircularBuffer_init alone
\* The objects CircularBuffer_init is called on: the zeroed static object of
\* circularuart.c, or an object that was in use (CircularUART_StartRx and
\* CircularUART_StartTx initialise the buffer again).
UsedObjects ==
    {CircularBuffer_init(NULL, 0)}
    \cup { [CircularBuffer_init(NewMemory(MaxExp), MaxExp)
             EXCEPT !.front = f, !.back = b, !.faultFlag = ff] :
               f \in 0 .. Pow2(MaxExp) - 1, b \in 0 .. Pow2(MaxExp) - 1, ff \in BOOLEAN }

InitAlone ==
    /\ bufferObject \in UsedObjects
    /\ ndebug \in BOOLEAN
    /\ aborted = FALSE
    /\ call = [NoCall EXCEPT !.fn = "none"]
    /\ sent = <<>>
    /\ got = <<>>
    /\ accepted = 0
    /\ delivered = 0
    /\ discarded = 0
    /\ streak = NoStreak
    /\ usage = "api"
    /\ task = Idle
    /\ txe = FALSE
    /\ obs = NoObs
    /\ uart = UartReset

\* A call of CircularBuffer_init. call.maxlen records length_2N. The call
\* stores the pointer bufferMemory and never accesses the store, which is
\* small here whatever the exponent.
InitCall ==
    /\ ~aborted
    /\ \E length_2N \in 0 .. MaxInitExp, bufferMemory \in {NULL, NewMemory(0), NewMemory(MaxExp)} :
          IF ndebug \/ AssertExponent(length_2N)
          THEN /\ bufferObject' = CircularBuffer_init(bufferMemory, length_2N)
               /\ call' = [NoCall EXCEPT !.fn = "init", !.maxlen = length_2N]
               /\ UNCHANGED aborted
          ELSE /\ aborted' = TRUE
               /\ call' = [NoCall EXCEPT !.fn = "init", !.maxlen = length_2N,
                                          !.assertFailed = TRUE]
               /\ UNCHANGED bufferObject
    /\ UNCHANGED <<ndebug, sent, got, accepted, delivered, discarded, streak,
                   usage, task, txe, obs, uart>>

NextInit == InitCall

SpecInit == InitAlone /\ [][NextInit]_vars

\* -------------------------------- circularbuffer.c under two contexts
\* The single push and the single pop of circularbuffer.c called from two
\* contexts, one of which preempts the other: the normal context is preempted
\* between any two of its accesses to the buffer object by the interrupt
\* context, whose call runs to completion. In the usage "rx" the interrupt
\* context is the producer and the normal context the consumer, in the usage
\* "tx" the normal context is the producer and the interrupt context the
\* consumer. The USART and its interrupt enable bits are no part of this
\* specification: see SpecDrv for the handler of circularuart.c.
InitIrq ==
    /\ \E length_2N \in 0 .. MaxExp :
          bufferObject = CircularBuffer_init(NewMemory(length_2N), length_2N)
    /\ usage \in {"rx", "tx"}
    /\ ndebug = FALSE
    /\ aborted = FALSE
    /\ call = NoCall
    /\ sent = <<>>
    /\ got = <<>>
    /\ accepted = 0
    /\ delivered = 0
    /\ discarded = 0
    /\ streak = NoStreak
    /\ task = Idle
    /\ txe = FALSE
    /\ obs = NoObs
    /\ uart = UartReset

\* What a step leaves alone unless it says otherwise.
Keep(unchanged) == UNCHANGED <<ndebug, aborted, streak, usage, txe, obs, uart, unchanged>>

\* Interrupt context: a call of CircularBuffer_pushBackByte.
Isr_pushBackByte ==
    /\ usage = "rx"
    /\ accepted < MaxXfer
    /\ LET data == Offer(1)
           r == CircularBuffer_pushBackByte(bufferObject, data[1])
       IN  /\ bufferObject' = r.obj
           /\ call' = [NoCall EXCEPT !.fn = "pushBackByte", !.data = data,
                                     !.maxlen = 1, !.ret = r.ret]
           /\ Sent(IF r.ret THEN data ELSE <<>>)
           /\ accepted' = IF r.ret THEN accepted + 1 ELSE accepted
    /\ Keep(<<task, delivered, discarded>>)

\* Interrupt context: a call of CircularBuffer_popFrontByte.
Isr_popFrontByte ==
    /\ usage = "tx"
    /\ LET r == CircularBuffer_popFrontByte(bufferObject)
       IN  /\ bufferObject' = r.obj
           /\ call' = [NoCall EXCEPT !.fn = "popFrontByte", !.maxlen = 1,
                                     !.ret = r.ret, !.out = r.out]
           /\ got' = got \o r.out
           /\ delivered' = IF r.ret THEN delivered + 1 ELSE delivered
    /\ Keep(<<task, sent, accepted, discarded>>)

\* Normal context, CircularBuffer_getUnreadSize: one 32-bit load.
Task_getUnreadSize ==
    /\ task = Idle
    /\ call' = [NoCall EXCEPT !.fn = "getUnreadSize",
                              !.len = CircularBuffer_getUnreadSize(bufferObject)]
    /\ Keep(<<bufferObject, task, sent, got, accepted, delivered, discarded>>)

\* Normal context, CircularBuffer_pushBackByte: the snapshot and the test.
PushBackByte_Snapshot ==
    /\ usage = "tx"
    /\ task = Idle
    /\ accepted < MaxXfer
    /\ LET unread == CircularBuffer_getUnreadSize(bufferObject)
       IN  task' = [Idle EXCEPT !.fn = "pushBackByte", !.unread = unread,
                                !.data = Offer(1),
                                !.pc = IF unread < bufferObject.lengthMask
                                       THEN "store" ELSE "fault"]
    /\ Keep(<<bufferObject, call, sent, got, accepted, delivered, discarded>>)

\* memory[back] = data.
PushBackByte_Store ==
    /\ task.fn = "pushBackByte" /\ task.pc = "store"
    /\ bufferObject' = [bufferObject EXCEPT
                          !.memory = MemcpyIn(@, bufferObject.back, task.data, 1)]
    /\ task' = [task EXCEPT !.pc = "advance"]
    /\ Keep(<<call, sent, got, accepted, delivered, discarded>>)

\* back = (back + 1) & lengthMask; return true.
PushBackByte_Advance ==
    /\ task.fn = "pushBackByte" /\ task.pc = "advance"
    /\ bufferObject' = [bufferObject EXCEPT
                          !.back = U16(BitAnd(@ + 1, bufferObject.lengthMask))]
    /\ call' = [NoCall EXCEPT !.fn = "pushBackByte", !.data = task.data,
                              !.maxlen = 1, !.ret = TRUE]
    /\ Sent(task.data)
    /\ accepted' = accepted + 1
    /\ task' = Idle
    /\ Keep(<<delivered, discarded>>)

\* faultFlag = true; return false.
PushBackByte_Fault ==
    /\ task.fn = "pushBackByte" /\ task.pc = "fault"
    /\ bufferObject' = [bufferObject EXCEPT !.faultFlag = TRUE]
    /\ call' = [NoCall EXCEPT !.fn = "pushBackByte", !.data = task.data,
                              !.maxlen = 1, !.ret = FALSE]
    /\ task' = Idle
    /\ Keep(<<sent, got, accepted, delivered, discarded>>)

\* Normal context, CircularBuffer_popFrontByte: the load of back.
PopFrontByte_Load ==
    /\ usage = "rx"
    /\ task = Idle
    /\ task' = [Idle EXCEPT !.fn = "popFrontByte", !.back = bufferObject.back,
                            !.pc = "test"]
    /\ Keep(<<bufferObject, call, sent, got, accepted, delivered, discarded>>)

\* back != front fails: return false.
PopFrontByte_Empty ==
    /\ task.fn = "popFrontByte" /\ task.pc = "test"
    /\ task.back = bufferObject.front
    /\ call' = [NoCall EXCEPT !.fn = "popFrontByte", !.maxlen = 1, !.ret = FALSE]
    /\ task' = Idle
    /\ Keep(<<bufferObject, sent, got, accepted, delivered, discarded>>)

\* back != front holds: *data = memory[front].
PopFrontByte_Read ==
    /\ task.fn = "popFrontByte" /\ task.pc = "test"
    /\ task.back # bufferObject.front
    /\ bufferObject' = [bufferObject EXCEPT
                          !.memory = MemRead(@, bufferObject.front, 1)]
    /\ task' = [task EXCEPT !.pc = "advance",
                            !.out = MemcpyOut(bufferObject.memory, bufferObject.front, 1)]
    /\ Keep(<<call, sent, got, accepted, delivered, discarded>>)

\* front = (front + 1) & lengthMask; return true.
PopFrontByte_Advance ==
    /\ task.fn = "popFrontByte" /\ task.pc = "advance"
    /\ bufferObject' = [bufferObject EXCEPT
                          !.front = U16(BitAnd(@ + 1, bufferObject.lengthMask))]
    /\ call' = [NoCall EXCEPT !.fn = "popFrontByte", !.maxlen = 1,
                              !.ret = TRUE, !.out = task.out]
    /\ got' = got \o task.out
    /\ delivered' = delivered + 1
    /\ task' = Idle
    /\ Keep(<<sent, accepted, discarded>>)

NextIrq ==
    \/ Isr_pushBackByte
    \/ Isr_popFrontByte
    \/ Task_getUnreadSize
    \/ PushBackByte_Snapshot
    \/ PushBackByte_Store
    \/ PushBackByte_Advance
    \/ PushBackByte_Fault
    \/ PopFrontByte_Load
    \/ PopFrontByte_Empty
    \/ PopFrontByte_Read
    \/ PopFrontByte_Advance

SpecIrq == InitIrq /\ [][NextIrq]_vars

\* --------------------------------------------------------- circularuart.c
\* The driver on one of its two buffers. The normal context calls
\* CircularUART_Init, CircularUART_StartTx, CircularUART_Send,
\* CircularUART_ClearTx and CircularUART_GetUnsentCount on the tx buffer,
\* CircularUART_Init, CircularUART_StartRx, CircularUART_Receive,
\* CircularUART_ClearRx and CircularUART_GetUnreadCount on the rx buffer, one
\* access to the buffer object per step, in program order where the accesses
\* depend on each other or may alias (the bytes of the store are accessed
\* through uint8_t pointers), in any order where the build is free to choose
\* (the stores of CircularBuffer_init, the two pairs of accesses of
\* CircularBuffer_checkAndClearFault); USART1_IRQHandler preempts it between
\* any two steps and runs to completion. At the start
\* CircularUART_Init has returned: the buffer is the unconfigured one
\* (NULL, 0) and the TXE and the RXNE interrupt are disabled. USART1 is part
\* of the state as far as the code reads and writes it: the TXE flag (data
\* register empty) is cleared by a write to the data register and set when
\* the byte moves to the shift register; the TC flag is set when a byte was
\* shifted out and the data register is empty, and cleared by a read of the
\* status register followed by a write to the data register, which is what
\* the handler does. A received byte is handed to the handler when it
\* arrives, if the RXNE interrupt is enabled. The build has the assertions
\* or, with NDEBUG, has none.
InitDrv ==
    /\ bufferObject = CircularBuffer_init(NULL, 0)
    /\ usage \in {"rx", "tx"}
    /\ ndebug \in BOOLEAN
    /\ aborted = FALSE
    /\ call = NoCall
    /\ sent = <<>>
    /\ got = <<>>
    /\ accepted = 0
    /\ delivered = 0
    /\ discarded = 0
    /\ streak = NoStreak
    /\ task = Idle
    /\ txe = FALSE
    /\ obs = NoObs
    /\ uart = UartReset

\* obs after a step that left the object as obj: the occupancy of obj held
\* during the getUnreadSize call in progress.
Watch(obj) ==
    [obs EXCEPT !.seen = IF task.fn = "getUnreadSize"
                         THEN @ \cup {CircularBuffer_getUnreadSize(obj)} ELSE @]

\* obs.last after a producer's or a consumer's action: once both acted, the
\* previous result of getUnreadSize tells nothing about the next.
After(last) == IF last.prod /\ last.cons THEN NoObs.last ELSE last

\* o after an action of who ("prod" or "cons") took effect, or did not.
Act(o, who, did) ==
    IF did
    THEN [o EXCEPT !.last = After([@ EXCEPT ![who] = o.last.valid]),
                   !.during = IF task.fn = "getUnreadSize"
                              THEN [@ EXCEPT ![who] = TRUE] ELSE @]
    ELSE o

\* A step of the driver is a step of a program that was not aborted; what it
\* leaves alone unless it says otherwise.
Same(unchanged) ==
    /\ ~aborted
    /\ UNCHANGED <<ndebug, aborted, streak, usage, uart, unchanged>>

\* The same for a step that reads or writes USART1.
Still(unchanged) ==
    /\ ~aborted
    /\ UNCHANGED <<ndebug, aborted, streak, usage, obs, unchanged>>

\* assert(bufferObject && bufferObject->memory) of the call of fn fails: the
\* program is aborted.
Fails(fn) == ~aborted /\ Abort(fn)

\* An access of the handler through the NULL store, which a build with NDEBUG
\* makes when CircularUART_Init has stored memory and not yet the cursors, or
\* left a cursor the handler advanced, is undefined: the program goes on, the
\* byte stored nowhere or read as any value, or a fault ends it. r is what
\* the push or the pop returns.
Faults(r) ==
    /\ r.ret /\ bufferObject.memory.null
    /\ ~aborted
    /\ aborted' = TRUE
    /\ bufferObject' = [bufferObject EXCEPT !.memory = r.obj.memory]
    /\ UNCHANGED <<ndebug, streak, usage, task, call, txe, obs, uart, sent, got,
                   accepted, delivered, discarded>>

\* What a pop of the handler read: the bytes of the store, or any byte when
\* it read through NULL.
Read(r) ==
    IF r.ret /\ bufferObject.memory.null THEN {<<b>> : b \in 0 .. MaxStray} ELSE {r.out}

\* The counts of bytes and what was observed start again with an
\* initialisation of the object.
Afresh ==
    /\ sent' = <<>>
    /\ got' = <<>>
    /\ accepted' = 0
    /\ delivered' = 0
    /\ discarded' = 0
    /\ obs' = NoObs

\* CircularUART_StartTx, CircularUART_StartRx: first USART_ITConfig(...,
\* DISABLE) of the interrupt whose handler branch works on the buffer. From
\* here to the return of the call that branch does not run, so that no other
\* context reads or writes the object while CircularBuffer_init stores to it.
\* The call is made at any time; here, while at most MaxReuse bytes were
\* accepted.
Start_Disable ==
    /\ task = Idle
    /\ accepted <= MaxReuse
    /\ task' = [Idle EXCEPT !.fn = "start", !.pc = "init"]
    /\ txe' = IF usage = "tx" THEN FALSE ELSE txe
    /\ uart' = IF usage = "rx" THEN [uart EXCEPT !.rxneie = FALSE] ELSE uart
    /\ Still(<<bufferObject, call, sent, got, accepted, delivered, discarded>>)

\* The rest of CircularUART_StartTx: CircularBuffer_init(&txBufferObject,
\* buffer, length_2N); of CircularUART_StartRx: the same on rxBufferObject,
\* USART_ClearFlag(RXNE) and USART_ITConfig(RXNE, ENABLE). The store is the
\* one the object has, when it is large enough, a new one, or NULL with the
\* exponent 0; length_2N <= MaxExp passes assert(length_2N <= 16).
Start_Init ==
    /\ task.fn = "start" /\ task.pc = "init"
    /\ \E length_2N \in 0 .. MaxExp :
       \E bufferMemory \in {NULL, NewMemory(length_2N), bufferObject.memory} :
          /\ bufferMemory = NULL => length_2N = 0
          /\ bufferMemory # NULL => Inside(bufferMemory, 0, Pow2(length_2N))
          /\ AssertExponent(length_2N)
          /\ bufferObject' = CircularBuffer_init(bufferMemory, length_2N)
          /\ call' = [NoCall EXCEPT !.fn = "init", !.maxlen = length_2N]
    /\ uart' = IF usage = "rx" THEN [uart EXCEPT !.rxneie = TRUE] ELSE uart
    /\ task' = Idle
    /\ Afresh
    /\ ~aborted
    /\ UNCHANGED <<ndebug, aborted, streak, usage, txe>>

\* The fields of CircularBufferObject_t.
Fields == {"memory", "lengthMask", "length", "faultFlag", "front", "back"}

\* CircularUART_Init called again, on the driver in use: of
\* CircularBuffer_init(&rxBufferObject, NULL, 0) and
\* CircularBuffer_init(&txBufferObject, NULL, 0) the call on this buffer. The
\* interrupts are as they were, so that the handler runs between the stores
\* to the six fields, which the build orders and merges as it likes (memory
\* first and back last without optimisation, back and front in one store
\* before lengthMask with it): a step stores one field, any that is not yet
\* stored. What the buffer held is gone, and the counts of bytes start
\* again, when the last field is stored; the store to faultFlag drops the
\* reports of rejected pushes that were due. The call is made while at most
\* MaxReuse bytes were accepted.
Init_Reset ==
    /\ \/ task = Idle /\ accepted <= MaxReuse
       \/ task.fn = "init" /\ task.pc = "reset"
    /\ \E f \in Fields \ task.stored :
          LET last == task.stored \cup {f} = Fields
              age == IF f = "faultFlag" THEN 0 ELSE obs.age
          IN  /\ bufferObject' = [bufferObject EXCEPT
                                    ![f] = CircularBuffer_init(NULL, 0)[f]]
              /\ task' = [task EXCEPT
                    !.fn = "init",
                    !.stored = IF last THEN {} ELSE @ \cup {f},
                    !.pc = IF last THEN "usart" ELSE "reset"]
              /\ IF last
                 THEN /\ sent' = <<>>
                      /\ got' = <<>>
                      /\ accepted' = 0
                      /\ delivered' = 0
                      /\ discarded' = 0
                      /\ obs' = [NoObs EXCEPT !.age = age]
                 ELSE /\ obs' = [obs EXCEPT !.age = age]
                      /\ UNCHANGED <<sent, got, accepted, delivered, discarded>>
    /\ ~aborted
    /\ UNCHANGED <<ndebug, aborted, streak, usage, uart, txe, call>>

\* The rest of CircularUART_Init: the clocks, the pins, the NVIC and
\* USART_Init, which leave the flags and the interrupt enable bits of USART1
\* as they are, then USART_ITConfig(TXE, DISABLE), USART_ITConfig(RXNE,
\* DISABLE) and USART_Cmd(ENABLE).
Init_Usart ==
    /\ task.fn = "init" /\ task.pc = "usart"
    /\ txe' = FALSE
    /\ uart' = [uart EXCEPT !.rxneie = FALSE]
    /\ call' = [NoCall EXCEPT !.fn = "init"]
    /\ task' = Idle
    /\ Still(<<bufferObject, sent, got, accepted, delivered, discarded>>)

\* USART1_IRQHandler, RXNE branch, taken when a byte was received and the
\* RXNE interrupt is enabled: the byte is pushed to the rx buffer, the result
\* of the push is dropped.
Irq_RXNE ==
    /\ usage = "rx"
    /\ uart.rxneie
    /\ accepted < MaxDrvXfer
    /\ IF Passes
       THEN LET data == Offer(1)
                r == CircularBuffer_pushBackByte(bufferObject, data[1])
            IN  \/ /\ bufferObject' = r.obj
                   /\ Sent(IF r.ret THEN data ELSE <<>>)
                   /\ accepted' = IF r.ret THEN accepted + 1 ELSE accepted
                   /\ obs' = [Act(Watch(r.obj), "prod", r.ret) EXCEPT
                                !.age = IF r.ret THEN @
                                        ELSE IF task.fn = "checkAndClearFault" /\ @ = 0
                                             THEN 1 ELSE IF @ = 1 THEN 1 ELSE 2]
                   /\ Same(<<task, call, txe, delivered, discarded>>)
                \/ Faults(r)
       ELSE Fails("pushBackByte")

\* USART1_IRQHandler, TXE branch, taken when the TXE interrupt is enabled and
\* the TXE flag is set (the data register is empty): a byte popped from the tx
\* buffer is written to the data register, which clears the TXE flag and,
\* after the read of the status register, the TC flag; with nothing to pop
\* the TXE interrupt is disabled. Of bytes that were not accepted, which a
\* CircularUART_Init in progress can make it pop, a run pops at most
\* MaxDrvXfer.
Irq_TXE ==
    /\ usage = "tx"
    /\ txe
    /\ ~uart.full
    /\ IF Passes
       THEN LET r == CircularBuffer_popFrontByte(bufferObject)
            IN  \/ /\ r.ret => (delivered < accepted \/ delivered < MaxDrvXfer)
                   /\ bufferObject' = r.obj
                   /\ \E out \in Read(r) : got' = got \o out
                   /\ delivered' = IF r.ret THEN delivered + 1 ELSE delivered
                   /\ uart' = IF r.ret THEN [uart EXCEPT !.full = TRUE, !.tc = FALSE]
                              ELSE uart
                   /\ txe' = r.ret
                   /\ obs' = Act(Watch(r.obj), "cons", r.ret)
                   /\ ~aborted
                   /\ UNCHANGED <<ndebug, aborted, streak, usage, task, call, sent,
                                  accepted, discarded>>
                \/ Faults(r)
       ELSE Fails("popFrontByte")

\* The transmitter moves the byte of the data register to the idle shift
\* register: the TXE flag is set.
Uart_Load ==
    /\ uart.full /\ ~uart.shifting
    /\ uart' = [uart EXCEPT !.full = FALSE, !.shifting = TRUE]
    /\ Still(<<bufferObject, task, call, txe, sent, got, accepted, delivered, discarded>>)

\* The transmitter has shifted the byte out: with the data register empty the
\* TC flag is set.
Uart_Done ==
    /\ uart.shifting
    /\ uart' = [uart EXCEPT !.shifting = FALSE, !.tc = @ \/ ~uart.full]
    /\ Still(<<bufferObject, task, call, txe, sent, got, accepted, delivered, discarded>>)

\* Mutant: the snapshot is a 16-bit load, of back alone.
GetUnreadSize_LoadWord_Low ==
    /\ task = Idle
    /\ IF Passes
       THEN /\ task' = [Idle EXCEPT !.fn = "getUnreadSize", !.pc = "mask",
                                    !.back = bufferObject.back]
            /\ obs' = [obs EXCEPT !.seen = {CircularBuffer_getUnreadSize(bufferObject)}]
            /\ Same(<<bufferObject, call, txe, sent, got, accepted, delivered, discarded>>)
       ELSE Fails("getUnreadSize")

\* CircularUART_GetUnsentCount and CircularUART_GetUnreadCount call
\* CircularBuffer_getUnreadSize, which asserts the store. Its snapshot of
\* (back, front) is one 32-bit load through a pointer cast: the build makes
\* it one load...
GetUnreadSize_LoadWord ==
    /\ task = Idle
    /\ IF Passes
       THEN /\ task' = [Idle EXCEPT !.fn = "getUnreadSize", !.pc = "mask",
                                    !.back = bufferObject.back,
                                    !.front = bufferObject.front]
            /\ obs' = [obs EXCEPT !.seen = {CircularBuffer_getUnreadSize(bufferObject)}]
            /\ Same(<<bufferObject, call, txe, sent, got, accepted, delivered, discarded>>)
       ELSE Fails("getUnreadSize")

\* ... or two 16-bit loads, in either order: the load of back,
GetUnreadSize_LoadBack ==
    /\ task = Idle \/ (task.fn = "getUnreadSize" /\ task.pc = "loadBack")
    /\ IF Passes
       THEN /\ task' = [task EXCEPT !.fn = "getUnreadSize",
                                    !.pc = IF task = Idle THEN "loadFront" ELSE "mask",
                                    !.back = bufferObject.back]
            /\ obs' = IF task = Idle
                      THEN [obs EXCEPT !.seen = {CircularBuffer_getUnreadSize(bufferObject)}]
                      ELSE obs
            /\ Same(<<bufferObject, call, txe, sent, got, accepted, delivered, discarded>>)
       ELSE Fails("getUnreadSize")

\* and the load of front.
GetUnreadSize_LoadFront ==
    /\ task = Idle \/ (task.fn = "getUnreadSize" /\ task.pc = "loadFront")
    /\ IF Passes
       THEN /\ task' = [task EXCEPT !.fn = "getUnreadSize",
                                    !.pc = IF task = Idle THEN "loadBack" ELSE "mask",
                                    !.front = bufferObject.front]
            /\ obs' = IF task = Idle
                      THEN [obs EXCEPT !.seen = {CircularBuffer_getUnreadSize(bufferObject)}]
                      ELSE obs
            /\ Same(<<bufferObject, call, txe, sent, got, accepted, delivered, discarded>>)
       ELSE Fails("getUnreadSize")

\* return (cachedPointers.back - cachedPointers.front) & lengthMask.
GetUnreadSize_Return ==
    /\ task.fn = "getUnreadSize" /\ task.pc = "mask"
    /\ call' = [NoCall EXCEPT !.fn = "getUnreadSize",
                              !.len = CircularBuffer_getUnreadSize(
                                        [bufferObject EXCEPT !.back = task.back,
                                                             !.front = task.front])]
    /\ task' = Idle
    /\ obs' = [obs EXCEPT !.seen = {},
                          !.last = After([valid |-> TRUE, len |-> call'.len,
                                          prod |-> obs.during.prod,
                                          cons |-> obs.during.cons]),
                          !.during = NoObs.during]
    /\ Same(<<bufferObject, txe, sent, got, accepted, delivered, discarded>>)

\* CircularUART_Send calls CircularBuffer_pushBack on the tx buffer, which
\* asserts the store: the free size from the snapshot, limited by maxlen.
PushBack_Snapshot ==
    /\ usage = "tx"
    /\ task = Idle
    /\ accepted < MaxDrvXfer
    /\ IF Passes
       THEN /\ \E maxlen \in 0 .. MaxLen :
                LET free == U16(bufferObject.lengthMask
                                  - CircularBuffer_getUnreadSize(bufferObject))
                    lenTotal == IF free > maxlen THEN maxlen ELSE free
                IN  task' = [Idle EXCEPT !.fn = "pushBack",
                                         !.data = Offer(maxlen),
                                         !.lenTotal = lenTotal, !.actualLen = lenTotal,
                                         !.pc = IF lenTotal > 0 THEN "copy" ELSE "trigger"]
            /\ Same(<<bufferObject, call, txe, obs, sent, got, accepted, delivered,
                      discarded>>)
       ELSE Fails("pushBack")

\* done after the byte at offset i was copied.
Copied(done, i, byte) ==
    [j \in DOMAIN done \cup {i} |-> IF j = i THEN byte ELSE done[j]]

\* One iteration of the copy loop of CircularBuffer_pushBack, up to the end
\* of the memcpy: partialLen is limited by the distance of back to the end,
\* and memcpy stores the partialLen bytes one store after the other, in the
\* order and the widths the C library chose: a step stores one byte, any that
\* is not yet stored, and the handler runs between any two.
PushBack_Copy ==
    /\ task.fn = "pushBack" /\ task.pc = "copy"
    /\ LET partialLen == IF (bufferObject.length - bufferObject.back) < task.lenTotal
                         THEN U16(bufferObject.length - bufferObject.back)
                         ELSE task.lenTotal
       IN  \E i \in (1 .. partialLen) \ DOMAIN task.done :
              LET done == Copied(task.done, i, task.data[i])
              IN  /\ bufferObject' = [bufferObject EXCEPT
                        !.memory = MemcpyIn(@, bufferObject.back + i - 1,
                                            SubSeq(task.data, i, i), 1)]
                  /\ task' = [task EXCEPT
                        !.partialLen = partialLen,
                        !.done = IF DOMAIN done = 1 .. partialLen THEN <<>> ELSE done,
                        !.pc = IF DOMAIN done = 1 .. partialLen THEN "publish" ELSE "copy"]
    /\ Same(<<call, txe, obs, sent, got, accepted, delivered, discarded>>)

\* The rest of the iteration: back is advanced, and the loop is left when
\* nothing remains to copy.
PushBack_Advance ==
    /\ task.fn = "pushBack" /\ task.pc = "publish"
    /\ bufferObject' = [bufferObject EXCEPT
          !.back = U16(BitAnd(@ + task.partialLen, bufferObject.lengthMask))]
    /\ LET lenTotal == U16(task.lenTotal - task.partialLen)
       IN  task' = [task EXCEPT !.lenTotal = lenTotal,
                                !.data = SubSeq(@, task.partialLen + 1, Len(@)),
                                !.iters = Min(@ + 1, MaxIters),
                                !.pc = IF lenTotal > 0 THEN "copy" ELSE "trigger"]
    /\ Sent(SubSeq(task.data, 1, task.partialLen))
    /\ accepted' = accepted + task.partialLen
    /\ obs' = Act(obs, "prod", task.partialLen > 0)
    /\ Same(<<call, txe, delivered, discarded>>)

\* CircularUART_Send after CircularBuffer_pushBack returned:
\* USART_GetFlagStatus(USART1, USART_FLAG_TC); with the flag clear Send
\* returns the result of the push.
Send_ReadTC ==
    /\ task.fn = "pushBack" /\ task.pc = "trigger"
    /\ IF uart.tc
       THEN /\ task' = [task EXCEPT !.flag = TRUE, !.pc = "enable"]
            /\ UNCHANGED call
       ELSE /\ call' = [NoCall EXCEPT !.fn = "pushBack", !.len = task.actualLen,
                                      !.iters = task.iters]
            /\ task' = Idle
    /\ Still(<<bufferObject, txe, uart, sent, got, accepted, delivered, discarded>>)

\* USART_ITConfig(USART1, USART_IT_TXE, ENABLE), and Send returns.
Send_Enable ==
    /\ task.fn = "pushBack" /\ task.pc = "enable"
    /\ txe' = TRUE
    /\ call' = [NoCall EXCEPT !.fn = "pushBack", !.len = task.actualLen,
                              !.iters = task.iters]
    /\ task' = Idle
    /\ Still(<<bufferObject, uart, sent, got, accepted, delivered, discarded>>)

\* CircularUART_Receive calls CircularBuffer_popFront on the rx buffer, which
\* asserts the store: the unread size from the snapshot, limited by maxlen.
PopFront_Snapshot ==
    /\ usage = "rx"
    /\ task = Idle
    /\ IF Passes
       THEN /\ \E maxlen \in 0 .. MaxLen :
                LET avail == CircularBuffer_getUnreadSize(bufferObject)
                    lenTotal == IF avail > maxlen THEN maxlen ELSE avail
                IN  task' = [Idle EXCEPT !.fn = "popFront",
                                         !.lenTotal = lenTotal, !.actualLen = lenTotal,
                                         !.pc = IF lenTotal > 0 THEN "read" ELSE "return"]
            /\ Same(<<bufferObject, call, txe, obs, sent, got, accepted, delivered,
                      discarded>>)
       ELSE Fails("popFront")

\* With nothing to copy the loop is not entered: return actualLen, which is 0.
PopFront_Return ==
    /\ task.fn = "popFront" /\ task.pc = "return"
    /\ call' = [NoCall EXCEPT !.fn = "popFront"]
    /\ task' = Idle
    /\ Same(<<bufferObject, txe, obs, sent, got, accepted, delivered, discarded>>)

\* Mutant: partialLen is limited by the distance of front to the last slot.
PopFront_Copy_ShortSplit ==
    /\ task.fn = "popFront" /\ task.pc = "read"
    /\ LET partialLen == IF (bufferObject.lengthMask - bufferObject.front) < task.lenTotal
                         THEN U16(bufferObject.lengthMask - bufferObject.front)
                         ELSE task.lenTotal
       IN  IF partialLen = 0
           THEN /\ task' = [task EXCEPT !.partialLen = 0, !.pc = "release"]
                /\ UNCHANGED bufferObject
           ELSE \E i \in (1 .. partialLen) \ DOMAIN task.done :
              LET done == Copied(task.done, i,
                                 MemcpyOut(bufferObject.memory, bufferObject.front + i - 1, 1)[1])
              IN  /\ bufferObject' = [bufferObject EXCEPT
                        !.memory = MemRead(@, bufferObject.front + i - 1, 1)]
                  /\ task' = [task EXCEPT
                        !.partialLen = partialLen,
                        !.done = IF DOMAIN done = 1 .. partialLen THEN <<>> ELSE done,
                        !.out = IF DOMAIN done = 1 .. partialLen THEN @ \o done ELSE @,
                        !.pc = IF DOMAIN done = 1 .. partialLen THEN "release" ELSE "read"]
    /\ Same(<<call, txe, obs, sent, got, accepted, delivered, discarded>>)

\* One iteration of the copy loop of CircularBuffer_popFront, up to the end
\* of the memcpy: partialLen is limited by the distance of front to the end,
\* and memcpy loads the partialLen bytes one after the other, in the order
\* the C library chose: a step copies one byte, any that is not yet copied,
\* and the handler runs between any two.
PopFront_Copy ==
    /\ task.fn = "popFront" /\ task.pc = "read"
    /\ LET partialLen == IF (bufferObject.length - bufferObject.front) < task.lenTotal
                         THEN U16(bufferObject.length - bufferObject.front)
                         ELSE task.lenTotal
       IN  \E i \in (1 .. partialLen) \ DOMAIN task.done :
              LET done == Copied(task.done, i,
                                 MemcpyOut(bufferObject.memory, bufferObject.front + i - 1, 1)[1])
              IN  /\ bufferObject' = [bufferObject EXCEPT
                        !.memory = MemRead(@, bufferObject.front + i - 1, 1)]
                  /\ task' = [task EXCEPT
                        !.partialLen = partialLen,
                        !.done = IF DOMAIN done = 1 .. partialLen THEN <<>> ELSE done,
                        !.out = IF DOMAIN done = 1 .. partialLen THEN @ \o done ELSE @,
                        !.pc = IF DOMAIN done = 1 .. partialLen THEN "release" ELSE "read"]
    /\ Same(<<call, txe, obs, sent, got, accepted, delivered, discarded>>)

\* The rest of the iteration: front is advanced, and the call returns
\* actualLen when nothing remains to copy.
PopFront_Advance ==
    /\ task.fn = "popFront" /\ task.pc = "release"
    /\ bufferObject' = [bufferObject EXCEPT
          !.front = U16(BitAnd(@ + task.partialLen, bufferObject.lengthMask))]
    /\ LET lenTotal == U16(task.lenTotal - task.partialLen)
           iters == Min(task.iters + 1, MaxIters)
       IN  IF lenTotal > 0
           THEN /\ task' = [task EXCEPT !.lenTotal = lenTotal, !.iters = iters,
                                        !.pc = "read"]
                /\ UNCHANGED call
           ELSE /\ call' = [NoCall EXCEPT !.fn = "popFront", !.len = task.actualLen,
                                          !.out = task.out, !.iters = iters]
                /\ task' = Idle
    /\ got' = got \o SubSeq(task.out, Len(task.out) - task.partialLen + 1, Len(task.out))
    /\ delivered' = delivered + task.partialLen
    /\ obs' = Act(obs, "cons", task.partialLen > 0)
    /\ Same(<<txe, sent, accepted, discarded>>)

\* CircularUART_ClearTx disables the TXE interrupt, by USART_ITConfig of the
\* peripheral library, then calls
\* CircularBuffer_checkAndClearFault(&txBufferObject, true).
ClearTx_Disable ==
    /\ usage = "tx"
    /\ task = Idle
    /\ txe' = FALSE
    /\ task' = [Idle EXCEPT !.fn = "checkAndClearFault", !.clearBuffer = TRUE,
                            !.pc = "run"]
    /\ obs' = [obs EXCEPT !.age = IF @ = 1 THEN 2 ELSE @]
    /\ Same(<<bufferObject, call, sent, got, accepted, delivered, discarded>>)

\* CircularBuffer_checkAndClearFault with clearBuffer, called by
\* CircularUART_ClearTx and by CircularUART_ClearRx, asserts the store when
\* it begins. Its accesses are front = back, a load of back and a store to front, and
\* if (faultFlag) faultFlag = false, a load of the flag and a store to it.
\* The fields are not volatile and differ, so that the build orders the two
\* pairs as it likes: a step makes any access whose value is there, the load
\* of the flag before or after the store to front.
\* The call begins with its first access.
Begins == (usage = "rx" /\ task = Idle) \/ (task.fn = "checkAndClearFault" /\ task.stored = {})

\* The locals of the call when it makes an access.
Running ==
    IF task = Idle
    THEN [Idle EXCEPT !.fn = "checkAndClearFault", !.clearBuffer = TRUE, !.pc = "run"]
    ELSE task

\* obs when the call makes an access: a push rejected during the previous
\* call is due to be reported by this one.
Begun == [obs EXCEPT !.age = IF @ = 1 /\ task = Idle THEN 2 ELSE @]

\* The load of back.
CheckAndClearFault_LoadBack ==
    /\ Begins \/ (task.fn = "checkAndClearFault" /\ "back" \notin task.stored)
    /\ IF Begins => Passes
       THEN /\ task' = [Running EXCEPT !.back = bufferObject.back, !.drop = Len(fifo),
                                       !.stored = @ \cup {"back"}]
            /\ obs' = Begun
            /\ Same(<<bufferObject, call, txe, sent, got, accepted, delivered, discarded>>)
       ELSE Fails("checkAndClearFault")

\* The store to front: the bytes that were unread at the load of back are
\* discarded.
CheckAndClearFault_StoreFront ==
    /\ task.fn = "checkAndClearFault"
    /\ "back" \in task.stored /\ "front" \notin task.stored
    /\ bufferObject' = [bufferObject EXCEPT !.front = task.back]
    /\ task' = [task EXCEPT !.stored = @ \cup {"front"}]
    /\ sent' = SubSeq(fifo, task.drop + 1, Len(fifo))
    /\ got' = <<>>
    /\ discarded' = discarded + Min(task.drop, Len(fifo))
    /\ obs' = Act(obs, "cons", TRUE)
    /\ Same(<<call, txe, accepted, delivered>>)

\* if (bufferObject->faultFlag): the load of the flag.
CheckAndClearFault_Check ==
    /\ Begins \/ (task.fn = "checkAndClearFault" /\ "faultFlag" \notin task.stored)
    /\ IF Begins => Passes
       THEN /\ task' = [Running EXCEPT !.flag = bufferObject.faultFlag,
                                       !.stored = @ \cup {"faultFlag"}]
            /\ obs' = Begun
            /\ Same(<<bufferObject, call, txe, sent, got, accepted, delivered, discarded>>)
       ELSE Fails("checkAndClearFault")

\* Mutant: the flag is cleared whatever was loaded.
CheckAndClearFault_Clear_Always ==
    /\ task.fn = "checkAndClearFault"
    /\ "faultFlag" \in task.stored /\ "cleared" \notin task.stored
    /\ bufferObject' = [bufferObject EXCEPT !.faultFlag = FALSE]
    /\ task' = [task EXCEPT !.stored = @ \cup {"cleared"}]
    /\ Same(<<call, txe, obs, sent, got, accepted, delivered, discarded>>)

\* faultFlag = false, when the flag was loaded set.
CheckAndClearFault_Clear ==
    /\ task.fn = "checkAndClearFault"
    /\ "faultFlag" \in task.stored /\ "cleared" \notin task.stored
    /\ task.flag
    /\ bufferObject' = [bufferObject EXCEPT !.faultFlag = FALSE]
    /\ task' = [task EXCEPT !.stored = @ \cup {"cleared"}]
    /\ Same(<<call, txe, obs, sent, got, accepted, delivered, discarded>>)

\* return true after the flag was cleared, return false otherwise, when all
\* the accesses are made.
CheckAndClearFault_Return ==
    /\ task.fn = "checkAndClearFault"
    /\ {"front", "faultFlag"} \subseteq task.stored
    /\ task.flag => "cleared" \in task.stored
    /\ call' = [NoCall EXCEPT !.fn = "checkAndClearFault", !.clearBuffer = TRUE,
                              !.ret = task.flag]
    /\ task' = Idle
    /\ obs' = [obs EXCEPT !.age = IF task.flag THEN 0 ELSE @]
    /\ Same(<<bufferObject, txe, sent, got, accepted, delivered, discarded>>)

NextDrv ==
    \/ Start_Disable
    \/ Start_Init
    \/ Init_Reset
    \/ Init_Usart
    \/ Irq_RXNE
    \/ Irq_TXE
    \/ GetUnreadSize_LoadWord
    \/ GetUnreadSize_LoadBack
    \/ GetUnreadSize_LoadFront
    \/ GetUnreadSize_Return
    \/ PushBack_Snapshot
    \/ PushBack_Copy
    \/ PushBack_Advance
    \/ Send_ReadTC
    \/ Send_Enable
    \/ PopFront_Snapshot
    \/ PopFront_Return
    \/ PopFront_Copy
    \/ PopFront_Advance
    \/ ClearTx_Disable
    \/ CheckAndClearFault_LoadBack
    \/ CheckAndClearFault_StoreFront
    \/ CheckAndClearFault_Check
    \/ CheckAndClearFault_Clear
    \/ CheckAndClearFault_Return
    \/ Uart_Load
    \/ Uart_Done

SpecDrv == InitDrv /\ [][NextDrv]_vars

\* The step is one of the normal context: of a call of a function of the
\* driver, the failure of its assertion included.
TaskStep ==
    \/ Start_Disable
    \/ Start_Init
    \/ Init_Reset
    \/ Init_Usart
    \/ GetUnreadSize_LoadWord
    \/ GetUnreadSize_LoadBack
    \/ GetUnreadSize_LoadFront
    \/ GetUnreadSize_Return
    \/ PushBack_Snapshot
    \/ PushBack_Copy
    \/ PushBack_Advance
    \/ Send_ReadTC
    \/ Send_Enable
    \/ PopFront_Snapshot
    \/ PopFront_Return
    \/ PopFront_Copy
    \/ PopFront_Advance
    \/ ClearTx_Disable
    \/ CheckAndClearFault_LoadBack
    \/ CheckAndClearFault_StoreFront
    \/ CheckAndClearFault_Check
    \/ CheckAndClearFault_Clear
    \/ CheckAndClearFault_Return

\* The step is a run of USART1_IRQHandler, whether or not it changes the
\* buffer object.
IsrStep == Irq_RXNE \/ Irq_TXE

\* ------------------------------------------- circularuart.c, transmission
\* The driver on the tx buffer, with everything the normal context calls on
\* it, the TXE branch of the handler and the transmitter of USART1, under the
\* fairness the scheduling gives. No push sets the fault flag of the tx buffer
\* (CircularBuffer_pushBack sets none), so that of CircularUART_ClearTx the
\* branch that clears it is not taken.
InitTx ==
    /\ bufferObject = CircularBuffer_init(NULL, 0)
    /\ usage = "tx"
    /\ ndebug \in BOOLEAN
    /\ aborted = FALSE
    /\ call = NoCall
    /\ sent = <<>>
    /\ got = <<>>
    /\ accepted = 0
    /\ delivered = 0
    /\ discarded = 0
    /\ streak = NoStreak
    /\ task = Idle
    /\ txe = FALSE
    /\ obs = NoObs
    /\ uart = UartReset

NextTx ==
    \/ Start_Disable
    \/ Start_Init
    \/ Init_Reset
    \/ Init_Usart
    \/ GetUnreadSize_LoadWord
    \/ GetUnreadSize_LoadBack
    \/ GetUnreadSize_LoadFront
    \/ GetUnreadSize_Return
    \/ PushBack_Snapshot
    \/ PushBack_Copy
    \/ PushBack_Advance
    \/ Send_ReadTC
    \/ Send_Enable
    \/ ClearTx_Disable
    \/ CheckAndClearFault_LoadBack
    \/ CheckAndClearFault_StoreFront
    \/ CheckAndClearFault_Check
    \/ CheckAndClearFault_Return
    \/ Irq_TXE
    \/ Uart_Load
    \/ Uart_Done

\* The handler runs when its interrupt is pending, the transmitter works, and
\* a call of a function of the driver that began runs to its return; nothing
\* makes the application call Send, or any other function of the driver,
\* again.
FairTx ==
    /\ WF_vars(Irq_TXE)
    /\ WF_vars(Uart_Load)
    /\ WF_vars(Uart_Done)
    /\ WF_vars(task # Idle /\ TaskStep)

SpecTx == InitTx /\ [][NextTx]_vars /\ FairTx

\* ------------------------------------------------- vocabulary of the claims
\* Capacity 2^N of the buffer, of which 2^N - 1 slots are usable.
Capacity == bufferObject.lengthMask + 1

\* The step is a call of fn that got past its assertion and returned.
Returned(fn) == call'.fn = fn /\ ~call'.assertFailed

\* The last call was a call of fn that returned.
Did(fn) == call.fn = fn /\ ~call.assertFailed

\* The bytes in the slots front, front+1, ..., back-1 (wrapped), oldest first.
RingContents(obj) ==
    [i \in 1 .. ((obj.back - obj.front) % (obj.lengthMask + 1)) |->
        obj.memory.cells[(obj.front + i - 1) % (obj.lengthMask + 1)]]

\* The cells of the store after the bytes of src were stored at at, at+1, ...
\* wrapping at the capacity, which the store may exceed.
CellsAfter(obj, at, src) ==
    [i \in DOMAIN obj.memory.cells |->
        IF i <= obj.lengthMask /\ ((i - at) % (obj.lengthMask + 1)) < Len(src)
        THEN src[((i - at) % (obj.lengthMask + 1)) + 1]
        ELSE obj.memory.cells[i]]

\* ---------------------------------------------------------------- claims
\* C1: in every state of every interleaving of the producer's single pushes
\* with the consumer's single pops (one of the two in the interrupt handler,
\* preempting the other between any two of its steps), getUnreadSize is the
\* number of pushes that returned true minus the number of pops that returned
\* true, and is at most capacity - 1.
C1_UnreadCount ==
    /\ CircularBuffer_getUnreadSize(bufferObject) = accepted - delivered
    /\ CircularBuffer_getUnreadSize(bufferObject) <= Capacity - 1
    /\ Did("getUnreadSize") => call.len = accepted - delivered

\* C1 witness: the handler pushed into a full rx buffer of capacity 4 while
\* the normal context was in the middle of a pop, after the cursors wrapped.
C1_Witness ==
    /\ usage = "rx"
    /\ task.fn = "popFrontByte" /\ task.pc = "advance"
    /\ Did("pushBackByte") /\ ~call.ret
    /\ bufferObject.lengthMask = 3
    /\ CircularBuffer_getUnreadSize(bufferObject) = 3
    /\ accepted > 4 /\ delivered > 1

\* C2: round trip. The bytes handed out by single and bulk pops are, in order,
\* the bytes accepted by single and bulk pushes: a push of k bytes that fit
\* (unread + k <= capacity - 1) is accepted whole, a pop of k bytes hands out
\* the k oldest unread bytes, so that pushing k <= capacity - 1 bytes into an
\* empty buffer and popping k yields the pushed sequence.
C2_RoundTrip ==
    [][ /\ (Returned("pushBackByte") \/ Returned("pushBack"))
            /\ Len(fifo) + call'.maxlen <= Capacity - 1
           => /\ fifo' = fifo \o call'.data
              /\ IF call'.fn = "pushBack" THEN call'.len = call'.maxlen ELSE call'.ret
        /\ (Returned("popFrontByte") \/ Returned("popFront"))
           => /\ Len(got') = Min(Len(sent), Len(got) + call'.maxlen)
              /\ got' = SubSeq(sent, 1, Len(got'))
              /\ call'.out = SubSeq(fifo, 1, Len(call'.out))
      ]_vars

\* C2 witness: capacity - 1 = 3 bytes were pushed into an empty buffer whose
\* cursors had advanced before, and a bulk pop in two segments returned them.
C2_Witness ==
    /\ Did("popFront")
    /\ bufferObject.lengthMask = 3
    /\ call.len = 3 /\ call.iters = 2
    /\ Len(sent) = 3 /\ got = sent
    /\ accepted > 3

\* C3: full-buffer boundary. A single push returns true exactly while fewer
\* than 2^N - 1 bytes are unread; at 2^N - 1 unread bytes it returns false,
\* writes nothing, sets the fault flag, and getUnreadSize is 2^N - 1.
C3_FullBoundary ==
    [][ Returned("pushBackByte")
        => /\ call'.ret = (Len(fifo) < Capacity - 1)
           /\ call'.ret
              => CircularBuffer_getUnreadSize(bufferObject') = Len(fifo) + 1
           /\ ~call'.ret
              => /\ bufferObject'.faultFlag
                 /\ bufferObject'.memory = bufferObject.memory
                 /\ bufferObject'.back = bufferObject.back
                 /\ bufferObject'.front = bufferObject.front
                 /\ CircularBuffer_getUnreadSize(bufferObject') = Capacity - 1
                 /\ CircularBuffer_getUnreadSize(bufferObject') # Capacity
      ]_vars

\* C3 witness: on a buffer of capacity 4 that had no pop nor reset, 3 bytes
\* were accepted and the next single push was rejected.
C3_Witness ==
    /\ Did("pushBackByte") /\ ~call.ret
    /\ bufferObject.lengthMask = 3
    /\ accepted = 3 /\ delivered = 0 /\ discarded = 0
    /\ bufferObject.faultFlag
    /\ CircularBuffer_getUnreadSize(bufferObject) = 3

\* C4: the fault flag goes from false to true only in a single push that
\* returns false, every single push that returns false leaves it true, and no
\* push, pop, bulk operation or size query takes it from true to false: of the
\* operations on an initialised object only checkAndClearFault does
\* (CircularBuffer_init, which constructs the object anew, starts it false).
C4_FaultFlag ==
    [][ /\ (~bufferObject.faultFlag /\ bufferObject'.faultFlag)
           => (Returned("pushBackByte") /\ ~call'.ret)
        /\ (Returned("pushBackByte") /\ ~call'.ret) => bufferObject'.faultFlag
        /\ (bufferObject.faultFlag /\ ~bufferObject'.faultFlag)
           => (Returned("checkAndClearFault") \/ Returned("init"))
      ]_vars

\* C4 witness: a fault is pending after a bulk push and a bulk pop that
\* followed the rejected single push.
C4_Witness ==
    /\ bufferObject.faultFlag
    /\ Did("popFront") /\ call.len > 0
    /\ bufferObject.lengthMask = 3

\* C5: bulk truncation. A bulk push of L bytes into F < L free slots returns
\* F, stores the first F source bytes at back, back+1, ... (wrapped) and
\* nothing else, advances back by F (wrapped) and leaves the fault flag as it
\* was.
C5_BulkTruncation ==
    [][ Returned("pushBack") /\ (Capacity - 1 - Len(fifo)) < call'.maxlen
        => LET F == Capacity - 1 - Len(fifo)
           IN  /\ call'.len = F
               /\ bufferObject'.memory.cells =
                     CellsAfter(bufferObject, bufferObject.back, SubSeq(call'.data, 1, F))
               /\ ~bufferObject'.memory.oob
               /\ bufferObject'.back = (bufferObject.back + F) % Capacity
               /\ bufferObject'.front = bufferObject.front
               /\ bufferObject'.faultFlag = bufferObject.faultFlag
               /\ fifo' = fifo \o SubSeq(call'.data, 1, F)
      ]_vars

\* C5 witness: a bulk push of 5 bytes found 2 free slots, across the end of
\* the store, with no fault pending.
C5_Witness ==
    /\ Did("pushBack")
    /\ call.maxlen = 5 /\ call.len = 2 /\ call.iters = 2
    /\ ~bufferObject.faultFlag

\* The number of copy-loop iterations that moving n bytes from cursor `at`
\* takes: none, one segment, or a segment up to the end of the store and a
\* remainder from index 0.
Segments(at, n) == IF n = 0 THEN 0 ELSE IF at + n > Capacity THEN 2 ELSE 1

\* C6: wraparound. Once more than 2 x capacity bytes went through the buffer,
\* a bulk pop still hands out the oldest unread bytes contiguously and in
\* order and a bulk push still stores the accepted bytes behind them; a copy
\* that crosses the end of the store takes exactly two segments, and no byte
\* is lost, duplicated or accessed outside [0, capacity).
C6_Wraparound ==
    [][ accepted > 2 * Capacity
        => /\ Returned("popFront")
              => /\ call'.out = SubSeq(fifo, 1, call'.len)
                 /\ call'.len = Min(call'.maxlen, Len(fifo))
                 /\ call'.iters = Segments(bufferObject.front, call'.len)
                 /\ RingContents(bufferObject') = fifo'
                 /\ ~bufferObject'.memory.oob
           /\ Returned("pushBack")
              => /\ fifo' = fifo \o SubSeq(call'.data, 1, call'.len)
                 /\ call'.iters = Segments(bufferObject.back, call'.len)
                 /\ RingContents(bufferObject') = fifo'
                 /\ \A i \in DOMAIN bufferObject.memory.cells :
                        i >= Capacity
                        => bufferObject'.memory.cells[i] = bufferObject.memory.cells[i]
                 /\ ~bufferObject'.memory.oob
      ]_vars

\* C6 witness: after more than 2 x 4 bytes went through a buffer of capacity
\* 4, a bulk pop of 3 bytes crossed the end of the store.
C6_Witness ==
    /\ Did("popFront")
    /\ bufferObject.lengthMask = 3
    /\ accepted > 8 /\ delivered > 8
    /\ call.len = 3 /\ call.iters = 2
    /\ got = sent

\* C7: a bulk pop of L bytes from A unread bytes returns min(L, A), hands out
\* the min(L, A) oldest unread bytes in order, advances front by that count
\* (wrapped), and leaves the other unread bytes, back, the store and the fault
\* flag as they were.
C7_PopFront ==
    [][ Returned("popFront")
        => LET A == Len(fifo)
               n == Min(call'.maxlen, A)
           IN  /\ RingContents(bufferObject) = fifo
               /\ call'.len = n
               /\ call'.out = SubSeq(fifo, 1, n)
               /\ bufferObject'.front = (bufferObject.front + n) % Capacity
               /\ bufferObject'.back = bufferObject.back
               /\ bufferObject'.memory.cells = bufferObject.memory.cells
               /\ bufferObject'.faultFlag = bufferObject.faultFlag
               /\ RingContents(bufferObject') = SubSeq(fifo, n + 1, A)
               /\ CircularBuffer_getUnreadSize(bufferObject') = A - n
      ]_vars

\* C7 witness: a bulk pop of 2 bytes from 3 unread bytes left 1 byte unread.
C7_Witness ==
    /\ Did("popFront")
    /\ call.maxlen = 2 /\ call.len = 2
    /\ Len(fifo) = 1
    /\ CircularBuffer_getUnreadSize(bufferObject) = 1

\* C8: of the checkAndClearFault calls made in a row at most one returns
\* true (the first, when a fault is pending), and after a checkAndClearFault
\* call the fault flag is false.
C8_CheckIdempotent ==
    /\ streak.trues <= 1
    /\ (streak.calls = 2 /\ streak.trues = 1) => ~call.ret
    /\ Did("checkAndClearFault") => ~bufferObject.faultFlag

\* C8 witness: two checkAndClearFault(false) calls in a row, the first of
\* which returned the pending fault.
C8_Witness ==
    /\ Did("checkAndClearFault") /\ ~call.clearBuffer
    /\ streak.calls = 2 /\ streak.trues = 1
    /\ Len(fifo) = bufferObject.lengthMask /\ bufferObject.lengthMask = 3

\* A push or a pop that accepted or yielded nothing.
NothingDone ==
    /\ call.fn \in {"pushBackByte", "popFrontByte"} => ~call.ret
    /\ call.len = 0
    /\ call.out = <<>>

\* C9: on the buffer of init(NULL, 0) every operation is a no-op that
\* accepts or yields nothing, and no operation aborts or fails.
C9_Original ==
    bufferObject.memory.null
    => /\ ~aborted
       /\ ~call.assertFailed
       /\ NothingDone

\* C9 witness: an operation on the buffer of init(NULL, 0) aborted.
C9_Witness ==
    /\ bufferObject.memory.null
    /\ call.fn = "popFront" /\ call.assertFailed
    /\ aborted

\* A push right after a reset is accepted as far as the usable capacity goes.
PushAfterReset(usable) ==
    /\ Returned("pushBackByte") => (call'.ret = usable)
    /\ Returned("pushBack") /\ call'.maxlen > 0 => ((call'.len > 0) = usable)

\* What checkAndClearFault(bufferObject, true) does, and what a pop right
\* after it returns.
ResetEffect ==
    /\ Returned("checkAndClearFault") /\ call'.clearBuffer
       => /\ bufferObject'.front = bufferObject.back
          /\ CircularBuffer_getUnreadSize(bufferObject') = 0
          /\ ~bufferObject'.faultFlag
          /\ bufferObject'.back = bufferObject.back
          /\ bufferObject'.memory = bufferObject.memory
          /\ fifo' = <<>>
    /\ Did("checkAndClearFault") /\ call.clearBuffer
       => /\ Returned("popFrontByte") => (~call'.ret /\ call'.out = <<>>)
          /\ Returned("popFront") => (call'.len = 0 /\ call'.out = <<>>)

\* C10 as stated: after checkAndClearFault(bufferObject, true) nothing is
\* unread, the fault flag is false, back and the store are unchanged, a
\* following pop returns nothing and a following push is accepted.
C10_Original ==
    [][ /\ ResetEffect
        /\ Did("checkAndClearFault") /\ call.clearBuffer => PushAfterReset(TRUE)
      ]_vars

\* C10 as amended: the same, the following push being accepted when the
\* capacity exponent is at least 1; with exponent 0 the buffer has no usable
\* slot and the following push is rejected as every push is.
C10_Reset ==
    [][ /\ ResetEffect
        /\ Did("checkAndClearFault") /\ call.clearBuffer
           => PushAfterReset(Capacity > 1)
      ]_vars

\* C10 witness: a reset discarded 3 unread bytes with a fault pending.
C10_Witness ==
    /\ Did("checkAndClearFault") /\ call.clearBuffer /\ call.ret
    /\ discarded >= 3 /\ bufferObject.lengthMask = 3
    /\ bufferObject.front = bufferObject.back /\ bufferObject.back = 3
    /\ bufferObject.memory.cells[0] # 0

\* ------------------------------------------------------------ type invariant
\* C13: a rejected single push changes neither the cursors nor the store;
\* while the fault is pending, pops hand out the oldest unread bytes in the
\* order they were accepted, a single push is accepted whenever fewer than
\* capacity - 1 bytes are unread, in particular right after a pop that handed
\* out a byte, and no push, pop or size query clears the flag: it stays until
\* checkAndClearFault is called (or the object is initialised anew).
C13_Recovery ==
    [][ /\ (Returned("pushBackByte") /\ ~call'.ret)
           => /\ bufferObject'.back = bufferObject.back
              /\ bufferObject'.front = bufferObject.front
              /\ bufferObject'.memory = bufferObject.memory
              /\ fifo' = fifo
        /\ (bufferObject.faultFlag /\ (Returned("popFrontByte") \/ Returned("popFront")))
           => /\ call'.out = SubSeq(fifo, 1, Min(Len(fifo), call'.maxlen))
              /\ fifo' = SubSeq(fifo, Len(call'.out) + 1, Len(fifo))
        /\ (bufferObject.faultFlag /\ Returned("pushBackByte"))
           => /\ call'.ret = (Len(fifo) < Capacity - 1)
              /\ (Did("popFrontByte") /\ call.ret) => call'.ret
              /\ (Did("popFront") /\ call.len > 0) => call'.ret
        /\ (bufferObject.faultFlag /\ ~Returned("checkAndClearFault")
                                   /\ ~Returned("init"))
           => bufferObject'.faultFlag
      ]_vars

\* C13 witness: a buffer of capacity 4 was filled, a push was rejected, one
\* byte was popped and the next single push was accepted, the fault pending.
C13_Witness ==
    /\ Did("pushBackByte") /\ call.ret
    /\ bufferObject.faultFlag
    /\ bufferObject.lengthMask = 3
    /\ accepted = 4 /\ delivered = 1 /\ discarded = 0
    /\ Len(fifo) = 3

\* C14 as claimed: a call of init with an exponent above 16 fails its
\* assertion and yields no buffer, and a call with an exponent 0..16 returns
\* with both cursors 0, the fault flag false and the mask 2^N - 1.
C14_Original ==
    call.fn = "init"
    => IF call.maxlen > 16
       THEN call.assertFailed
       ELSE /\ ~call.assertFailed
            /\ bufferObject.front = 0 /\ bufferObject.back = 0
            /\ ~bufferObject.faultFlag
            /\ bufferObject.lengthMask = Pow2(call.maxlen) - 1

\* C14: a call of init with an exponent 0..16 returns with both cursors 0, the
\* fault flag false and the mask 2^N - 1; with an exponent above 16 it fails
\* its assertion in a debug build, and in a build with NDEBUG it returns a
\* buffer whose mask was truncated to 16 bits: mask 65535, length 65536.
C14_InitExponent ==
    call.fn = "init"
    => IF call.maxlen > 16
       THEN IF ndebug
            THEN /\ ~call.assertFailed
                 /\ bufferObject.lengthMask = 65535
                 /\ bufferObject.lengthMask # Pow2(call.maxlen) - 1
                 /\ bufferObject.length = 65536
                 /\ bufferObject.front = 0 /\ bufferObject.back = 0
                 /\ ~bufferObject.faultFlag
            ELSE call.assertFailed /\ aborted
       ELSE /\ ~call.assertFailed
            /\ bufferObject.front = 0 /\ bufferObject.back = 0
            /\ ~bufferObject.faultFlag
            /\ bufferObject.lengthMask = Pow2(call.maxlen) - 1

\* C14 witness: in a build with NDEBUG init returned for the exponent 17.
C14_Witness ==
    /\ ndebug
    /\ Did("init") /\ call.maxlen = 17
    /\ bufferObject.lengthMask = 65535

\* The value the getUnreadSize call in progress returns from what it loaded.
Snapshot ==
    CircularBuffer_getUnreadSize(
        [bufferObject EXCEPT !.back = task.back, !.front = task.front])

\* The step is the return of the normal context's getUnreadSize call.
GetUnreadSizeReturns == task.fn = "getUnreadSize" /\ task' = Idle

\* C11: whatever the interrupt handler pushed or popped during a call of
\* getUnreadSize, and whether the build loads the two cursors in one access
\* or in two, the call returns an occupancy (back - front) & lengthMask that
\* held at some instant between its start and its return.
C11_Snapshot ==
    [][ GetUnreadSizeReturns => call'.len \in obs.seen ]_vars

\* C11 witness: a getUnreadSize call on the rx buffer of capacity 4 is about
\* to return after the handler pushed twice since it started, once after the
\* load of back.
C11_Witness ==
    /\ usage = "rx"
    /\ task.fn = "getUnreadSize" /\ task.pc = "mask"
    /\ bufferObject.lengthMask = 3
    /\ Cardinality(obs.seen) >= 3
    /\ task.back # bufferObject.back
    /\ Snapshot > 0

\* C12: of two successive getUnreadSize calls of the normal context, the
\* second returns at least what the first returned when no pop and no reset
\* took effect since the first started, and at most what the first returned
\* when no push took effect since, whatever the handler did meanwhile.
C12_Monotone ==
    [][ (GetUnreadSizeReturns /\ obs.last.valid)
        => /\ ~obs.last.cons => call'.len >= obs.last.len
           /\ ~obs.last.prod => call'.len <= obs.last.len
      ]_vars

\* C12 witness: the second of two getUnreadSize calls on the rx buffer is
\* about to return more than the first, the handler having pushed between
\* them; the cursors have wrapped.
C12_Witness ==
    /\ usage = "rx"
    /\ task.fn = "getUnreadSize" /\ task.pc = "mask"
    /\ obs.last.valid /\ obs.last.prod /\ ~obs.last.cons
    /\ Snapshot > obs.last.len
    /\ task.back < task.front

\* The step stores to the object in CircularBuffer_init, called by
\* CircularUART_StartTx, CircularUART_StartRx or CircularUART_Init.
Initialises == Start_Init \/ Init_Reset

\* The step is one of the context that produces for the buffer, or one of the
\* context that consumes from it.
ProducerStep == IF usage = "tx" THEN TaskStep ELSE IsrStep
ConsumerStep == IF usage = "tx" THEN IsrStep ELSE TaskStep

\* The step stores to back, or to front.
StoresBack ==
    \/ bufferObject'.back # bufferObject.back
    \/ TaskStep /\ task.fn = "pushBack" /\ task.pc = "publish"
StoresFront ==
    \/ bufferObject'.front # bufferObject.front
    \/ TaskStep /\ task.fn = "popFront" /\ task.pc = "release"
    \/ CheckAndClearFault_StoreFront

\* The step belongs to a push, or to a pop or a reset.
InPush == IF TaskStep THEN task.fn = "pushBack" ELSE Irq_RXNE
InPopOrReset ==
    IF TaskStep THEN task.fn \in {"popFront", "checkAndClearFault"} ELSE Irq_TXE

\* C15: once the object is initialised, back is stored by pushes alone, in
\* the producer's context, and front by pops and resets alone, in the
\* consumer's context: no step of the producer's context stores to front. A
\* step of the handler is the producer's for the rx buffer and the consumer's
\* for the tx buffer, and a step of a call of the driver is of the other
\* context.
C15_Original ==
    [][ ~Initialises
        => /\ StoresBack => (InPush /\ ProducerStep)
           /\ StoresFront => (InPopOrReset /\ ConsumerStep)
      ]_vars

\* C15 witness: CircularUART_ClearTx stored the front of the tx buffer, from
\* which the handler had popped, and discarded unread bytes.
C15_Witness ==
    /\ usage = "tx"
    /\ task.fn = "checkAndClearFault" /\ "front" \in task.stored
    /\ task.drop > 0
    /\ delivered > 0
    /\ bufferObject.front = bufferObject.back

\* C16: in every state of the driver, the states between the steps of a bulk
\* copy in two segments included, front and back are at most lengthMask, and
\* no push and no pop has accessed the store outside its 2^N slots.
C16_Original ==
    /\ bufferObject.front \in 0 .. bufferObject.lengthMask
    /\ bufferObject.back \in 0 .. bufferObject.lengthMask
    /\ ~bufferObject.memory.oob
    /\ task.pc \in {"publish", "release"}
       => /\ task.partialLen <= Capacity
          /\ (IF task.fn = "pushBack" THEN bufferObject.back ELSE bufferObject.front)
                + task.partialLen <= Capacity

\* C16 witness: CircularUART_Init, called on the driver receiving into a
\* buffer of capacity 4, has stored back and not yet lengthMask, its RXNE
\* interrupt is enabled, and the handler has pushed a byte since.
C16_Witness ==
    /\ usage = "rx"
    /\ task.fn = "init" /\ task.pc = "reset"
    /\ "back" \in task.stored /\ "lengthMask" \notin task.stored
    /\ uart.rxneie
    /\ bufferObject.lengthMask = 3
    /\ bufferObject.back = 1

\* The slot of the i-th unread byte of obj.
Slot(obj, i) == (obj.front + i - 1) % (obj.lengthMask + 1)

\* The slots front .. back - 1 (wrapped) of obj are slots of its store and
\* hold the bytes of seq, in order.
Holds(obj, seq) ==
    /\ (obj.back - obj.front) % (obj.lengthMask + 1) = Len(seq)
    /\ \A i \in 1 .. Len(seq) :
          /\ Slot(obj, i) \in DOMAIN obj.memory.cells
          /\ obj.memory.cells[Slot(obj, i)] = seq[i]

\* C17: in every state of the driver the slots front .. back - 1 (wrapped)
\* hold the accepted bytes that were neither delivered nor discarded, oldest
\* first; a push has stored its bytes when it is about to advance back, and a
\* pop has read the oldest unread bytes when it is about to advance front.
C17_Original ==
    /\ Holds(bufferObject, fifo)
    /\ (task.fn = "pushBack" /\ task.pc = "publish")
       => MemcpyOut(bufferObject.memory, bufferObject.back, task.partialLen)
            = SubSeq(task.data, 1, task.partialLen)
    /\ (task.fn = "popFront" /\ task.pc = "release")
       => SubSeq(task.out, Len(task.out) - task.partialLen + 1, Len(task.out))
            = SubSeq(fifo, 1, task.partialLen)

\* C17 witness: CircularUART_Init, called on the driver receiving into a
\* buffer of capacity 4 that holds an unread byte, has stored memory and not
\* yet the cursors nor lengthMask, and its RXNE interrupt is enabled: the
\* handler's next push stores through NULL.
C17_Witness ==
    /\ usage = "rx"
    /\ ndebug
    /\ task.fn = "init" /\ task.pc = "reset"
    /\ task.stored = {"memory"}
    /\ uart.rxneie
    /\ bufferObject.lengthMask = 3
    /\ bufferObject.back = 1 /\ bufferObject.front = 0
    /\ ENABLED Irq_RXNE

\* C18: the copy loop of a bulk push and of a bulk pop of the driver starts at
\* most two iterations, each of which copies at least one byte, whatever the
\* handler does between the steps.
C18_TwoIterations ==
    /\ task.iters <= 2
    /\ call.iters <= 2
    /\ task.pc \in {"copy", "read"} => (task.iters <= 1 /\ task.lenTotal >= 1)
    /\ task.pc \in {"publish", "release"}
       => (task.iters <= 1 /\ task.partialLen >= 1 /\ task.partialLen <= task.lenTotal)

\* C18 witness: a bulk pop of 3 bytes from the full rx buffer of capacity 4 is
\* in its second iteration, and the handler pushed a byte after the first.
C18_Witness ==
    /\ usage = "rx"
    /\ task.fn = "popFront" /\ task.pc = "release" /\ task.iters = 1
    /\ bufferObject.lengthMask = 3
    /\ task.actualLen = 3
    /\ CircularBuffer_getUnreadSize(bufferObject) > task.lenTotal

C20_NoLostFault ==
    /\ (task.fn = "checkAndClearFault" /\ "faultFlag" \in task.stored /\ ~task.flag)
       => obs.age # 2
    /\ obs.age # 0
       => \/ bufferObject.faultFlag
          \/ task.fn = "checkAndClearFault" /\ "faultFlag" \in task.stored /\ task.flag

\* C20 witness: CircularUART_ClearRx loaded the flag clear before it stored
\* to front, and the handler's push into the full rx buffer was rejected
\* after the load: the call will return false with the flag set.
C20_Witness ==
    /\ usage = "rx"
    /\ task.fn = "checkAndClearFault"
    /\ "faultFlag" \in task.stored /\ ~task.flag
    /\ "front" \notin task.stored
    /\ obs.age = 1
    /\ bufferObject.faultFlag
    /\ bufferObject.lengthMask = 3

\* C21: every byte that CircularUART_Send got accepted into the tx buffer is
\* popped by the handler and written to the data register without a further
\* call of Send: the tx buffer is never left with unread bytes and the TXE
\* interrupt disabled while no call of Send is in progress and the
\* transmitter has nothing left to do, a state that only another call of Send
\* leaves.
C21_Original ==
    (/\ task = Idle
     /\ ~uart.full
     /\ ~uart.shifting)
    => (txe \/ CircularBuffer_getUnreadSize(bufferObject) = 0)

\* Send is about to read the TC flag with bytes accepted, after the handler
\* disabled the TXE interrupt on the empty buffer and while the last byte is
\* shifted out.
C21_Witness ==
    /\ task.fn = "pushBack" /\ task.pc = "trigger"
    /\ task.actualLen > 0
    /\ ~txe
    /\ uart.shifting /\ ~uart.full /\ ~uart.tc
    /\ delivered > 0

TypeOK ==
    /\ bufferObject.back \in 0 .. 65535
    /\ bufferObject.front \in 0 .. 65535
    /\ bufferObject.faultFlag \in BOOLEAN
    /\ bufferObject.memory.oob => (ndebug /\ bufferObject.memory.null)
    /\ task.pc \in {"idle", "store", "fault", "advance", "test", "mask", "loadBack",
                  "loadFront", "copy", "publish", "trigger", "read", "release",
                  "run", "enable", "return", "init", "reset", "usart"}
    /\ task.stored \subseteq (Fields \cup {"cleared"})
    /\ uart \in [full : BOOLEAN, shifting : BOOLEAN, tc : BOOLEAN, rxneie : BOOLEAN]

====
